---- MODULE Spec2Model ----
(***************************************************************************)
(* Zabbix Tag Manager: the API client (app/zabbix_api.py) and the tag      *)
(* routes (app.py) as one sequential state machine talking to a remote     *)
(* JSON-RPC service.  A behaviour is the handling of one inbound request:   *)
(* the routes build a fresh client per request and keep nothing between    *)
(* requests, so a sequence of requests is a sequence of such behaviours,   *)
(* each starting from the remote state the previous one left.  Every HTTP  *)
(* exchange with the remote is one step, so that another writer of the     *)
(* remote may act between the fetch and the update of a mutation.          *)
(***************************************************************************)
EXTENDS Integers, Sequences, FiniteSets, TLC

(***************************************************************************)
(* Bounds of the model.                                                    *)
(***************************************************************************)
\* MAX_BULK_SIZE of zabbix_api.py:24 (1000 in the source), scaled down so
\* that id lists longer than the cap exist within the bounds.
MAX_BULK_SIZE == 2
\* longest raw id list of a bulk request
MaxIds == 3
\* writes by another client of the remote in one behaviour
MaxExternal == 1

\* Zabbix limit on tag name and value length (zabbix_api.py:17,19; app.py:72)
MaxTagLen == 255

Kinds == {"host", "trigger", "item"}

(***************************************************************************)
(* Strings.  A Python value that reaches a tag-name or tag-value position  *)
(* is modelled by its type, its length and whether strip() leaves it       *)
(* empty; txt distinguishes values of equal shape.                         *)
(***************************************************************************)
Str(txt, len, blank) == [typ |-> "str", txt |-> txt, len |-> len, blank |-> blank]

NoneValue == [typ |-> "none", txt |-> "None", len |-> 0, blank |-> FALSE]
EmptyStr == Str("", 0, TRUE)
BlankStr == Str(" ", 1, TRUE)
NameEnv == Str("env", 3, FALSE)
NameOs == Str("os", 2, FALSE)
NameMax == Str("m..m", MaxTagLen, FALSE)
NameLong == Str("l..l", MaxTagLen + 1, FALSE)
ValProd == Str("prod", 4, FALSE)
ValLong == Str("v..v", MaxTagLen + 1, FALSE)

\* Python truthiness of a value: None and "" are falsy
Truthy(v) == v.typ = "str" /\ v.len > 0

IsStr(v) == v.typ = "str"

\* v.strip() == ""
StripEmpty(v) == v.blank

(***************************************************************************)
(* zabbix_api.py: validate_tag_input                                       *)
(***************************************************************************)
validate_tag_input(tag_name, tag_value) ==
    IF ~Truthy(tag_name) \/ ~IsStr(tag_name) THEN FALSE
    ELSE IF StripEmpty(tag_name) THEN FALSE
    ELSE IF tag_name.len > MaxTagLen THEN FALSE
    ELSE IF Truthy(tag_value) /\ tag_value.len > MaxTagLen THEN FALSE
    ELSE TRUE

\* the name check of remove_tag_from_host / _trigger / _item
RemoveNameValid(tag_name) ==
    ~(~Truthy(tag_name) \/ ~IsStr(tag_name) \/ StripEmpty(tag_name))

\* a mutation without the check of the id
IdValidAny(id) == TRUE

\* isinstance(host_id, int) and host_id > 0 (ids are integers in the model)
IdValid(id) == id > 0

(***************************************************************************)
(* Tag lists.  A tag read from the remote carries tag, value and the       *)
(* remote-only field automatic; a tag of an update payload carries tag and *)
(* value only.                                                             *)
(***************************************************************************)
RemoteTag(name, value, automatic) ==
    [tag |-> name, value |-> value, automatic |-> automatic]

\* an add without the "already exists" check
TagExistsNever(current_tags, tag_name) == FALSE

\* "Check if tag already exists": for tag in current_tags: tag['tag'] == tag_name
TagExists(current_tags, tag_name) ==
    \E i \in 1..Len(current_tags) : current_tags[i].tag = tag_name

\* an update list that keeps the tags as they were fetched
CleanTagsKeepAll(tags) == tags

\* clean_tags: every tag reduced to {"tag", "value"}
CleanTags(tags) ==
    [i \in 1..Len(tags) |-> [tag |-> tags[i].tag, value |-> tags[i].value]]

\* an add that pushes the fetched list without the new tag
AddPayloadNoAppend(current_tags, tag_name, tag_value) ==
    [i \in 1..Len(current_tags) |->
        [tag |-> current_tags[i].tag, value |-> current_tags[i].value]]

\* current_tags.append(new_tag) followed by the clean_tags loop
AddPayload(current_tags, tag_name, tag_value) ==
    CleanTags(Append(current_tags, [tag |-> tag_name, value |-> tag_value]))

\* a filter that keeps no tag at all
FilterOutAll(tags, tag_name) == << >>

\* updated_tags = [tag for tag in current_tags if tag['tag'] != tag_name]
RECURSIVE FilterOut(_, _)
FilterOut(tags, tag_name) ==
    IF tags = << >> THEN << >>
    ELSE IF Head(tags).tag # tag_name
         THEN << Head(tags) >> \o FilterOut(Tail(tags), tag_name)
         ELSE FilterOut(Tail(tags), tag_name)

\* a remove without the "does not exist" early return
NothingRemovedNever(updated_tags, current_tags) == FALSE

\* len(updated_tags) == len(current_tags): the name was not on the object
NothingRemoved(updated_tags, current_tags) ==
    Len(updated_tags) = Len(current_tags)

\* number of tags of a list that carry the name
CountName(tags, tag_name) ==
    Cardinality({i \in 1..Len(tags) : tags[i].tag = tag_name})

(***************************************************************************)
(* Id lists of a bulk request.  An element of the JSON list is modelled by *)
(* the tokens str(element).split(',') yields after strip(): an integer     *)
(* literal, the empty string, or text that int() rejects.  The JSON number *)
(* 5 and the string "5" are both << IntTok(5) >>; "5,6" is                 *)
(* << IntTok(5), IntTok(6) >>.                                             *)
(***************************************************************************)
IntTok(n) == [t |-> "int", n |-> n]
EmptyTok == [t |-> "empty", n |-> 0]
BadTok == [t |-> "bad", n |-> 0]

RECURSIVE Flatten(_)
Flatten(raw) ==
    IF raw = << >> THEN << >> ELSE Head(raw) \o Flatten(Tail(raw))

RECURSIVE TokInts(_)
TokInts(toks) ==
    IF toks = << >> THEN << >>
    ELSE IF Head(toks).t = "int" THEN << Head(toks).n >> \o TokInts(Tail(toks))
    ELSE TokInts(Tail(toks))

SeqToSet(s) == {s[i] : i \in 1..Len(s)}

\* app.py bulk_tag_operation / bulk_trigger_operation:
\*   host_ids = [int(hid) for hid in host_ids]
\* int() accepts an element only if it is one integer literal.
ParseIdsPlain(raw) ==
    [ok  |-> \A i \in 1..Len(raw) : Len(raw[i]) = 1 /\ raw[i][1].t = "int",
     ids |-> TokInts(Flatten(raw))]

\* app.py bulk_item_operation: split every element by ',', strip, skip empty
\* tokens, int() the others.
ParseIdsGrouped(raw) ==
    [ok  |-> \A i \in 1..Len(Flatten(raw)) : Flatten(raw)[i].t # "bad",
     ids |-> TokInts(Flatten(raw))]

\* list(set(item_ids)): the distinct ids, in an order the code does not fix
Orderings(S) ==
    {s \in [1..Cardinality(S) -> S] : \A i, j \in 1..Cardinality(S) : s[i] = s[j] => i = j}

\* the lists the kind's route may hand to the bulk method for a parsed id list
RouteIdLists(kind, parsed) ==
    IF kind = "item" THEN Orderings(SeqToSet(parsed)) ELSE {parsed}

\* a bulk method without the cap
TruncateNever(id_list) == id_list

\* a bulk method whose cap lets one id too many through
TruncateLate(id_list) ==
    IF Len(id_list) > MAX_BULK_SIZE + 1 THEN SubSeq(id_list, 1, MAX_BULK_SIZE + 1)
    ELSE id_list

\* host_ids[:MAX_BULK_SIZE] when len(host_ids) > MAX_BULK_SIZE
Truncate(id_list) ==
    IF Len(id_list) > MAX_BULK_SIZE THEN SubSeq(id_list, 1, MAX_BULK_SIZE) ELSE id_list

(***************************************************************************)
(* Local validation of the routes: the message of the rejection, or "" when *)
(* the request passes.                                                     *)
(***************************************************************************)
TagNameMissing(tag_name) ==
    ~Truthy(tag_name) \/ ~IsStr(tag_name) \/ StripEmpty(tag_name)

TooLong(tag_name, tag_value) ==
    tag_name.len > MaxTagLen \/ (Truthy(tag_value) /\ tag_value.len > MaxTagLen)

\* add_tag, add_tag_to_trigger, add_tag_to_item
AddRouteReject(inp) ==
    IF ~inp.has_json THEN "Invalid request - JSON required"
    ELSE IF TagNameMissing(inp.tag) THEN "Tag name is required"
    ELSE IF TooLong(inp.tag, inp.value)
         THEN "Tag name or value too long (max 255 characters)"
    ELSE ""

\* remove_tag, remove_tag_from_trigger, remove_tag_from_item
RemoveRouteReject(inp) ==
    IF ~Truthy(inp.tag) \/ StripEmpty(inp.tag) THEN "Tag name is required" ELSE ""

ParseIds(kind, raw) ==
    IF kind = "item" THEN ParseIdsGrouped(raw) ELSE ParseIdsPlain(raw)

\* bulk_tag_operation, bulk_trigger_operation, bulk_item_operation
BulkRouteReject(kind, inp) ==
    IF ~inp.has_json THEN "Invalid request - JSON required"
    ELSE IF TagNameMissing(inp.tag) THEN "Tag name is required"
    ELSE IF ~inp.ids_is_list \/ Len(inp.ids) = 0 THEN "No objects selected"
    ELSE IF ~ParseIds(kind, inp.ids).ok THEN "Invalid IDs"
    ELSE IF TooLong(inp.tag, inp.value)
         THEN "Tag name or value too long (max 255 characters)"
    ELSE ""

(***************************************************************************)
(* The remote service.  Every exchange ends in a result, in an error       *)
(* response carrying a text, or in a transport failure                     *)
(* (requests.RequestException).                                            *)
(***************************************************************************)
SessionText == "Session terminated, re-login, please."
RefusedText == "Cannot update a discovered object."
ErrorTexts == {SessionText, RefusedText}

PostOutcomes == {"result", "transport"} \cup ErrorTexts
LoginRefusedText == "Incorrect user name or password."
LoginOutcomes == {"result", "transport", LoginRefusedText}

\* 'authentication' in error_message.lower() or 'session' in error_message.lower()
MentionsAuth(error_message) == error_message = SessionText

\* a retry budget of two
RetryWantedTwice(retry_count, error_message) ==
    retry_count < 2 /\ error_message = "Session terminated, re-login, please."

\* a retry after any error response
RetryWantedAlways(retry_count, error_message) == retry_count < 1

\* make_request: "if retry_count < 1 and (<authentication or session text>)"
RetryWanted(retry_count, error_message) ==
    retry_count < 1 /\ MentionsAuth(error_message)

\* a make_request that treats a static token like a session token
StaticTokenIgnored(token) == FALSE

\* make_request: "if self.api_token:" - with a static token the call is not
\* retried and the stored token is kept
StaticToken(token) == token # "none"

ObjIds == {1, 2, 3}
Missing == [exists |-> FALSE, tags |-> << >>]
Object(tags) == [exists |-> TRUE, tags |-> tags]

\* a name no request of the model asks for
NameDc == Str("dc", 2, FALSE)

\* the objects of every kind when the behaviour starts: 1 carries env=prod
\* (set by discovery) followed by dc, 2 carries no tag, 3 does not exist
InitObjects ==
    [id \in ObjIds |->
        IF id = 1 THEN Object(<< RemoteTag(NameEnv, ValProd, "1"),
                                 RemoteTag(NameDc, EmptyStr, "0") >>)
        ELSE IF id = 2 THEN Object(<< >>)
        ELSE Missing]

\* <kind>.get with <kind>ids = [id]: the list of matching objects
GetResult(store, id) ==
    IF id \in DOMAIN store /\ store[id].exists THEN << store[id] >> ELSE << >>

NoneResult == [none |-> TRUE, list |-> << >>]
ValueResult(list) == [none |-> FALSE, list |-> list]

(***************************************************************************)
(* State.                                                                  *)
(***************************************************************************)
VARIABLES
    api_token,      \* ZABBIX_API_TOKEN: "none" or the token
    userpass,       \* ZABBIX_USER and ZABBIX_PASSWORD are both set
    auth_token,     \* ZabbixAPI.auth_token: "none", the api token, or "sess"
    remote,         \* [kind -> [id -> object]]: the remote service's objects
    pc,             \* position of the request being handled
    req,            \* the inbound request
    ids,            \* the id list handed to the bulk method
    processed,      \* that list after truncation to the cap
    idx,            \* position of the bulk loop in processed
    success_count, failed_count, errors,
    cur,            \* id of the object under mutation
    call,           \* which remote call of the mutation is running
    retry_count,    \* make_request's retry_count
    mr_result,      \* value make_request returned
    current_tags,   \* the fetched tag list
    payload,        \* the tag list of the update call
    log,            \* history: the exchanges of the current mutation
    authlog,        \* history: the login exchanges of the route's authenticate()
    snap,           \* history: the object as it was when the mutation began
    interfered,     \* history: another writer changed the object since then
    mutated,        \* history: ids whose update the remote applied, this request
    mut_result,     \* history: what the last single-object mutation returned
    attempted,      \* history: ids whose mutation was entered, this request
    contacted,      \* history: the mutations that sent a remote request, in order
    totals,         \* history: requests the mutations sent so far (CountSpec only)
    result,         \* the bulk method's return value
    response,       \* the route's JSON response
    nwrites         \* writes by another client so far

vars == << api_token, userpass, auth_token, remote, pc, req, ids, processed, idx,
           success_count, failed_count, errors, cur, call, retry_count, mr_result,
           current_tags, payload, log, authlog, snap, interfered, mutated,
           mut_result, attempted, contacted, totals, result, response, nwrites >>

config == << api_token, userpass >>
bulkvars == << ids, processed, idx, success_count, failed_count, errors, result >>
mutvars == << cur, call, retry_count, mr_result, current_tags, payload >>
histvars == << log, authlog, snap, interfered, mutated, mut_result, attempted,
              contacted, totals >>

NoTotals == [posts |-> 0, logins |-> 0]

NoInput ==
    [has_json |-> FALSE, operation |-> "none", ids_is_list |-> FALSE, ids |-> << >>,
     tag |-> NoneValue, value |-> EmptyStr]
NoRequest ==
    [endpoint |-> "none", kind |-> "host", id |-> 0, direct |-> FALSE, inp |-> NoInput]
NoBulkResult == [returned |-> FALSE, success |-> 0, failed |-> 0, errors |-> << >>]
NoDetails == [present |-> FALSE, success_count |-> 0, failed_count |-> 0,
              failed_items |-> << >>]
Pending == [sent |-> FALSE, success |-> FALSE, message |-> "", details |-> NoDetails]
Reply(success, message) ==
    [sent |-> TRUE, success |-> success, message |-> message, details |-> NoDetails]

Init ==
    /\ api_token \in {"none", "tok"}
    /\ userpass \in BOOLEAN
    /\ auth_token = "none"
    /\ remote = [k \in Kinds |-> InitObjects]
    /\ pc = "idle"
    /\ req = NoRequest
    /\ ids = << >>
    /\ processed = << >>
    /\ idx = 0
    /\ success_count = 0
    /\ failed_count = 0
    /\ errors = << >>
    /\ cur = 0
    /\ call = "none"
    /\ retry_count = 0
    /\ mr_result = NoneResult
    /\ current_tags = << >>
    /\ payload = << >>
    /\ log = << >>
    /\ authlog = << >>
    /\ snap = Missing
    /\ interfered = FALSE
    /\ mutated = {}
    /\ mut_result = FALSE
    /\ attempted = << >>
    /\ contacted = << >>
    /\ totals = NoTotals
    /\ result = NoBulkResult
    /\ response = Pending
    /\ nwrites = 0

(***************************************************************************)
(* Inputs of the inbound requests.                                         *)
(***************************************************************************)
NameExt == Str("owner", 5, FALSE)

TagInputs == {NoneValue, EmptyStr, BlankStr, NameEnv, NameOs, NameMax, NameLong}
ValueInputs == {EmptyStr, ValProd, ValLong}
RouteIds == {0, 1, 2, 3}
IdElements ==
    {<< IntTok(n) >> : n \in RouteIds}
        \cup {<< IntTok(1), IntTok(2) >>, << BadTok >>, << EmptyTok >>}
\* the elements that name an existing object
ExistingIdElements == {<< IntTok(1) >>, << IntTok(2) >>}
\* every list of existing ids, and every such list up to the cap with one
\* element replaced by an element of any shape
RawIdLists ==
    UNION {[1..n -> ExistingIdElements] : n \in 0..MaxIds}
        \cup UNION {{[l EXCEPT ![i] = e] :
                        l \in [1..n -> ExistingIdElements], i \in 1..n, e \in IdElements} :
                     n \in 1..MAX_BULK_SIZE}
Operations == {"add", "remove", "toggle"}

SingleInput(tag, value) ==
    [has_json |-> TRUE, operation |-> "none", ids_is_list |-> FALSE, ids |-> << >>,
     tag |-> tag, value |-> value]
BulkInput(operation, is_list, raw, tag, value) ==
    [has_json |-> TRUE, operation |-> operation, ids_is_list |-> is_list,
     ids |-> raw, tag |-> tag, value |-> value]

\* every id list with the valid names, every name and value with a short list
BulkInputs ==
    {NoInput}
        \cup {BulkInput(o, TRUE, raw, t, EmptyStr) :
                o \in Operations, raw \in RawIdLists, t \in {NameEnv, NameOs}}
        \cup {BulkInput(o, l, raw, t, v) :
                o \in {"add"}, l \in BOOLEAN, raw \in {<< >>, << << IntTok(2) >> >>},
                t \in TagInputs, v \in ValueInputs}

\* the mutation a request asks for
Op == IF req.endpoint = "bulk" THEN req.inp.operation ELSE req.endpoint
tag_name == req.inp.tag
tag_value == req.inp.value

(***************************************************************************)
(* ZabbixAPI.authenticate: what it returns, the token it leaves stored and *)
(* whether it sent a login request, given the remote's answer if it did.   *)
(***************************************************************************)
\* an authenticate() that prefers the password login to the static token
authenticatePasswordFirst(outcome) ==
    IF userpass
    THEN IF outcome = "result" THEN [ok |-> TRUE, token |-> "sess", sent |-> TRUE]
         ELSE [ok |-> FALSE, token |-> auth_token, sent |-> TRUE]
    ELSE IF api_token # "none"
    THEN [ok |-> TRUE, token |-> api_token, sent |-> FALSE]
    ELSE [ok |-> FALSE, token |-> auth_token, sent |-> FALSE]

\* an authenticate() that posts the login without checking that a username
\* and a password are configured
authenticateUnchecked(outcome) ==
    IF api_token # "none"
    THEN [ok |-> TRUE, token |-> api_token, sent |-> FALSE]
    ELSE IF outcome = "result"
    THEN [ok |-> TRUE, token |-> "sess", sent |-> TRUE]
    ELSE [ok |-> FALSE, token |-> auth_token, sent |-> TRUE]

\* an authenticate() that reports success although the login was refused
authenticateFailOpen(outcome) ==
    IF api_token # "none"
    THEN [ok |-> TRUE, token |-> api_token, sent |-> FALSE]
    ELSE IF ~userpass
    THEN [ok |-> FALSE, token |-> auth_token, sent |-> FALSE]
    ELSE IF outcome = "result"
    THEN [ok |-> TRUE, token |-> "sess", sent |-> TRUE]
    ELSE [ok |-> TRUE, token |-> auth_token, sent |-> TRUE]

authenticate(outcome) ==
    IF api_token # "none"
    THEN [ok |-> TRUE, token |-> api_token, sent |-> FALSE]
    ELSE IF ~userpass
    THEN [ok |-> FALSE, token |-> auth_token, sent |-> FALSE]
    ELSE IF outcome = "result"
    THEN [ok |-> TRUE, token |-> "sess", sent |-> TRUE]
    ELSE [ok |-> FALSE, token |-> auth_token, sent |-> TRUE]

\* the login request of authenticate(): its headers are Content-Type and
\* User-Agent, its body names the method and the username/password
LoginEntry(c, outcome) ==
    [call |-> c, method |-> "user.login", stored |-> auth_token, bearer |-> "none",
     in_body |-> FALSE, out |-> outcome]

\* a request in the pre-7.x format: the token as "auth" member of the body
PostEntryInBody(c, method, outcome) ==
    [call |-> c, method |-> method, stored |-> auth_token, bearer |-> "none",
     in_body |-> method # "user.login" /\ auth_token # "none", out |-> outcome]

\* the request make_request posts: the token goes into the Authorization
\* header when the method is not user.login and a token is stored
PostEntry(c, method, outcome) ==
    [call |-> c, method |-> method, stored |-> auth_token,
     bearer |-> IF method # "user.login" /\ auth_token # "none" THEN auth_token ELSE "none",
     in_body |-> FALSE, out |-> outcome]

\* history: the mutation at position of the bulk loop (0 outside a bulk run)
\* sends a request for the object id
Contact(c, position, id) ==
    IF c # << >> /\ c[Len(c)].pos = position THEN c
    ELSE Append(c, [pos |-> position, id |-> id])

(***************************************************************************)
(* The routes up to the construction of the client.                        *)
(***************************************************************************)
NewRequest(r, id_list, reject) ==
    /\ req' = r
    /\ ids' = id_list
    /\ processed' = << >>
    /\ idx' = 0
    /\ success_count' = 0
    /\ failed_count' = 0
    /\ errors' = << >>
    /\ cur' = r.id
    /\ call' = "none"
    /\ retry_count' = 0
    /\ mr_result' = NoneResult
    /\ current_tags' = << >>
    /\ payload' = << >>
    /\ log' = << >>
    /\ authlog' = << >>
    /\ snap' = Missing
    /\ interfered' = FALSE
    /\ mutated' = {}
    /\ mut_result' = FALSE
    /\ attempted' = << >>
    /\ contacted' = << >>
    /\ totals' = NoTotals
    /\ result' = NoBulkResult
    /\ auth_token' = "none"
    /\ IF reject # ""
       THEN response' = Reply(FALSE, reject) /\ pc' = "done"
       ELSE /\ response' = Pending
            /\ pc' = IF r.direct THEN "mut_start" ELSE "route_auth"
    /\ UNCHANGED << config, remote, nwrites >>

\* POST /api/<kind>/<id>/tags
AddTagRoute ==
    /\ pc = "idle"
    /\ \E k \in Kinds, i \in RouteIds :
      \E body \in {NoInput} \cup {SingleInput(t, v) : t \in TagInputs, v \in ValueInputs} :
        NewRequest([endpoint |-> "add", kind |-> k, id |-> i, direct |-> FALSE,
                    inp |-> body],
                   << >>, AddRouteReject(body))

\* DELETE /api/<kind>/<id>/tags/<tag_name>: the name is a path segment, a
\* non-empty string
RemoveTagRoute ==
    /\ pc = "idle"
    /\ \E k \in Kinds, i \in RouteIds :
      \E t \in {x \in TagInputs : IsStr(x) /\ x.len > 0} :
        NewRequest([endpoint |-> "remove", kind |-> k, id |-> i, direct |-> FALSE,
                    inp |-> SingleInput(t, EmptyStr)],
                   << >>, RemoveRouteReject(SingleInput(t, EmptyStr)))

\* POST /api/<kind>s/tags/bulk
BulkRoute ==
    /\ pc = "idle"
    /\ \E k \in Kinds :
      \E body \in BulkInputs :
        LET reject == BulkRouteReject(k, body) IN
        \E id_list \in IF reject = "" THEN RouteIdLists(k, ParseIds(k, body.ids).ids)
                       ELSE {<< >>} :
          NewRequest([endpoint |-> "bulk", kind |-> k, id |-> 0, direct |-> FALSE,
                      inp |-> body],
                     id_list, reject)

\* the arguments of the direct calls: the valid ones, and one call for each
\* way the arguments can fail the checks of the mutation methods
DirectCalls ==
    {[op |-> e, id |-> i, tag |-> t, value |-> EmptyStr] :
        e \in {"add", "remove"}, i \in {1, 2}, t \in {NameEnv, NameOs}}
    \cup {[op |-> e, id |-> 0, tag |-> NameEnv, value |-> EmptyStr] : e \in {"add", "remove"}}
    \cup {[op |-> e, id |-> 1, tag |-> t, value |-> EmptyStr] :
            e \in {"add", "remove"}, t \in {NoneValue, EmptyStr, BlankStr}}
    \cup {[op |-> "add", id |-> 1, tag |-> NameLong, value |-> EmptyStr],
          [op |-> "add", id |-> 1, tag |-> NameOs, value |-> ValLong]}

\* a caller of the client class that invokes add_tag_to_<kind> or
\* remove_tag_from_<kind> on a fresh client without calling authenticate()
\* first: make_request then authenticates on its own
DirectCall ==
    /\ pc = "idle"
    /\ \E k \in Kinds, c \in DirectCalls :
         NewRequest([endpoint |-> c.op, kind |-> k, id |-> c.id, direct |-> TRUE,
                     inp |-> SingleInput(c.tag, c.value)], << >>, "")

\* zabbix = ZabbixAPI(); if not zabbix.authenticate(): 'Authorization error'
RouteAuthenticate ==
    /\ pc = "route_auth"
    /\ \E outcome \in LoginOutcomes :
         LET a == authenticate(outcome) IN
         /\ auth_token' = a.token
         /\ authlog' = IF a.sent THEN Append(authlog, LoginEntry("route", outcome))
                       ELSE authlog
         /\ IF a.ok
            THEN pc' = "dispatch" /\ UNCHANGED response
            ELSE pc' = "done" /\ response' = Reply(FALSE, "Authorization error")
    /\ UNCHANGED << config, remote, req, bulkvars, mutvars, log, snap, interfered,
                    mutated, mut_result, attempted, contacted, totals, nwrites >>

(***************************************************************************)
(* The bulk methods bulk_add_tags*_detailed / bulk_remove_tags*_detailed   *)
(* and what the routes make of their result.                               *)
(***************************************************************************)
BulkResult(s, f, e) == [returned |-> TRUE, success |-> s, failed |-> f, errors |-> e]

\* a bulk loop that counts a failure without recording its id
AccumulateNoError(ok, id, acc) ==
    IF ok THEN [success |-> acc.success + 1, failed |-> acc.failed, errors |-> acc.errors]
    ELSE [success |-> acc.success, failed |-> acc.failed + 1, errors |-> acc.errors]

\* the loop body's accounting for one id
Accumulate(ok, id, acc) ==
    IF ok THEN [success |-> acc.success + 1, failed |-> acc.failed, errors |-> acc.errors]
    ELSE [success |-> acc.success, failed |-> acc.failed + 1,
          errors |-> Append(acc.errors, id)]

\* a route that answers success: false when an id failed
BulkReplyAllOrNothing(operation, res) ==
    [sent |-> TRUE, success |-> res.failed = 0,
     message |-> IF operation = "add" THEN "Tag added" ELSE "Tag removed",
     details |-> [present |-> TRUE, success_count |-> res.success,
                  failed_count |-> res.failed, failed_items |-> res.errors]]

\* jsonify({'success': True, 'message': ..., 'details': {...}})
BulkReply(operation, res) ==
    [sent |-> TRUE, success |-> TRUE,
     message |-> IF operation = "add" THEN "Tag added" ELSE "Tag removed",
     details |-> [present |-> TRUE, success_count |-> res.success,
                  failed_count |-> res.failed, failed_items |-> res.errors]]

SingleReply(operation, ok) ==
    IF operation = "add"
    THEN IF ok THEN Reply(TRUE, "Tag has been added") ELSE Reply(FALSE, "Failed to add tag")
    ELSE IF ok THEN Reply(TRUE, "Tag has been removed")
         ELSE Reply(FALSE, "Failed to remove tag")

\* a bulk loop that returns at the first id that fails
LoopStopsOnFailure(ok, position, count) == ok /\ position < count

\* "for host_id in host_ids:" - the loop goes on to the next id whatever the
\* mutation of this one returned
LoopContinues(ok, position, count) == position < count

\* a single-object mutation returns ok: the route answers, or the bulk loop
\* accounts for the id and goes on to the next one
MutReturn(ok) ==
    /\ mut_result' = ok
    /\ IF req.endpoint = "bulk"
       THEN LET acc == Accumulate(ok, cur, [success |-> success_count,
                                            failed |-> failed_count, errors |-> errors])
            IN /\ success_count' = acc.success
               /\ failed_count' = acc.failed
               /\ errors' = acc.errors
               /\ IF LoopContinues(ok, idx, Len(processed))
                  THEN /\ idx' = idx + 1
                       /\ cur' = processed[idx + 1]
                       /\ pc' = "mut_start"
                       /\ UNCHANGED << result, response >>
                  ELSE /\ result' = BulkResult(acc.success, acc.failed, acc.errors)
                       /\ response' = BulkReply(Op, result')
                       /\ pc' = "done"
                       /\ UNCHANGED << idx, cur >>
       ELSE /\ response' = IF req.direct THEN response ELSE SingleReply(Op, ok)
            /\ pc' = "done"
            /\ UNCHANGED << success_count, failed_count, errors, idx, cur, result >>

\* after authenticate(): the single-object routes call the mutation, the bulk
\* routes branch on operation and enter the bulk method
Dispatch ==
    /\ pc = "dispatch"
    /\ IF req.endpoint # "bulk"
       THEN /\ pc' = "mut_start"
            /\ UNCHANGED << response, bulkvars, cur >>
       ELSE IF Op \notin {"add", "remove"}
       THEN /\ response' = Reply(FALSE, "Unknown operation")
            /\ pc' = "done"
            /\ UNCHANGED << bulkvars, cur >>
       ELSE IF Len(ids) = 0
       THEN /\ result' = BulkResult(0, 0, << >>)
            /\ response' = BulkReply(Op, result')
            /\ pc' = "done"
            /\ UNCHANGED << ids, processed, idx, success_count, failed_count, errors, cur >>
       ELSE /\ processed' = Truncate(ids)
            /\ idx' = 1
            /\ cur' = processed'[1]
            /\ pc' = "mut_start"
            /\ UNCHANGED << ids, success_count, failed_count, errors, result, response >>
    /\ UNCHANGED << config, auth_token, remote, req, call, retry_count, mr_result,
                    current_tags, payload, histvars, nwrites >>

(***************************************************************************)
(* The single-object mutations add_tag_to_<kind> / remove_tag_from_<kind>. *)
(***************************************************************************)
GetMethod == req.kind \o ".get"
UpdateMethod == req.kind \o ".update"

\* the local checks before the fetch
MutStart ==
    /\ pc = "mut_start"
    /\ log' = << >>
    /\ snap' = IF cur \in ObjIds THEN remote[req.kind][cur] ELSE Missing
    /\ interfered' = FALSE
    /\ current_tags' = << >>
    /\ payload' = << >>
    /\ mr_result' = NoneResult
    /\ retry_count' = 0
    /\ IF /\ IF Op = "add" THEN validate_tag_input(tag_name, tag_value)
             ELSE RemoveNameValid(tag_name)
          /\ IdValid(cur)
       THEN /\ call' = "fetch"
            /\ pc' = "mr_enter"
            /\ UNCHANGED << mut_result, success_count, failed_count, errors, idx, cur,
                            result, response >>
       ELSE /\ call' = "none"
            /\ MutReturn(FALSE)
    /\ attempted' = Append(attempted, cur)
    /\ UNCHANGED << config, auth_token, remote, req, ids, processed, authlog, mutated,
                    contacted, totals, nwrites >>

(***************************************************************************)
(* ZabbixAPI.make_request, one exchange per step.  pc = "mr_enter" is the  *)
(* entry of make_request (also of its recursive call), "mr_post" the point *)
(* after its authenticate() succeeded, "mr_ret" its return.                *)
(***************************************************************************)
\* a remote that keeps the tags an update does not name
StoredMerged(tags) ==
    SelectSeq(remote[req.kind][cur].tags,
              LAMBDA t : \A i \in 1..Len(tags) : tags[i].tag # t.tag)
        \o [i \in 1..Len(tags) |-> RemoteTag(tags[i].tag, tags[i].value, "0")]

\* the tag list the remote stores for the tags of an accepted update
Stored(tags) ==
    [i \in 1..Len(tags) |-> RemoteTag(tags[i].tag, tags[i].value, "0")]

\* "if method != 'user.login' and not self.auth_token and not self.authenticate():
\*      return None"
MRAuthenticateOf(counting) ==
    /\ pc = "mr_enter"
    /\ auth_token = "none"
    /\ \E outcome \in LoginOutcomes :
         LET a == authenticate(outcome) IN
         /\ auth_token' = a.token
         /\ log' = IF a.sent THEN Append(log, LoginEntry(call, outcome)) ELSE log
         /\ contacted' = IF a.sent THEN Contact(contacted, idx, cur) ELSE contacted
         /\ totals' = IF counting /\ a.sent THEN [totals EXCEPT !.logins = @ + 1] ELSE totals
         /\ IF a.ok
            THEN pc' = "mr_post" /\ UNCHANGED mr_result
            ELSE pc' = "mr_ret" /\ mr_result' = NoneResult
    /\ UNCHANGED << config, remote, req, bulkvars, cur, call, retry_count, current_tags,
                    payload, authlog, snap, interfered, mutated, mut_result, attempted,
                    response, nwrites >>

MRAuthenticate == MRAuthenticateOf(FALSE)

\* session.post and the handling of its response
MRPostOf(counting) ==
    /\ \/ pc = "mr_post"
       \/ pc = "mr_enter" /\ auth_token # "none"
    /\ \E outcome \in PostOutcomes :
         /\ log' = Append(log, PostEntry(call, IF call = "fetch" THEN GetMethod
                                               ELSE UpdateMethod, outcome))
         /\ contacted' = Contact(contacted, idx, cur)
         /\ totals' = IF counting THEN [totals EXCEPT !.posts = @ + 1] ELSE totals
         /\ IF outcome = "result"
            THEN /\ IF call = "fetch"
                    THEN /\ mr_result' = ValueResult(GetResult(remote[req.kind], cur))
                         /\ UNCHANGED << remote, mutated >>
                    ELSE /\ remote' = [remote EXCEPT ![req.kind][cur].tags = Stored(payload)]
                         /\ mutated' = mutated \cup {cur}
                         /\ mr_result' = ValueResult(<< cur >>)
                 /\ pc' = "mr_ret"
                 /\ UNCHANGED << auth_token, retry_count >>
            ELSE IF /\ outcome \in ErrorTexts
                    /\ RetryWanted(retry_count, outcome)
                    /\ ~StaticToken(api_token)
            THEN \* self.auth_token = None; return self.make_request(.., retry_count + 1)
                 /\ auth_token' = "none"
                 /\ retry_count' = retry_count + 1
                 /\ pc' = "mr_enter"
                 /\ UNCHANGED << mr_result, remote, mutated >>
            ELSE /\ mr_result' = NoneResult
                 /\ pc' = "mr_ret"
                 /\ UNCHANGED << auth_token, retry_count, remote, mutated >>
    /\ UNCHANGED << config, req, bulkvars, cur, call, current_tags, payload, authlog,
                    snap, interfered, mut_result, attempted, response, nwrites >>

MRPost == MRPostOf(FALSE)

\* a mutation that goes on when the fetch returned no object
FetchEmptyIgnored(r) == FALSE

\* "hosts[0] if hosts else {}" followed by "if not host: return False": the
\* fetch failed or returned an empty list
FetchEmpty(r) == r.none \/ r.list = << >>

\* host.get('tags', [])
FetchedTags(r) == IF r.none \/ r.list = << >> THEN << >> ELSE r.list[1].tags

\* get_<kind>_details returned, then the add or remove logic up to the
\* update call
AfterFetch ==
    /\ pc = "mr_ret"
    /\ call = "fetch"
    /\ IF FetchEmpty(mr_result)
       THEN /\ MutReturn(FALSE)
            /\ UNCHANGED << call, current_tags, payload, retry_count >>
       ELSE LET fetched == FetchedTags(mr_result) IN
            /\ current_tags' = fetched
            /\ IF Op = "add"
               THEN IF TagExists(fetched, tag_name)
                    THEN /\ MutReturn(FALSE)
                         /\ UNCHANGED << call, payload, retry_count >>
                    ELSE /\ payload' = AddPayload(fetched, tag_name, tag_value)
                         /\ call' = "update"
                         /\ retry_count' = 0
                         /\ pc' = "mr_enter"
                         /\ UNCHANGED << mut_result, success_count, failed_count, errors,
                                         idx, cur, result, response >>
               ELSE IF NothingRemoved(FilterOut(fetched, tag_name), fetched)
                    THEN /\ MutReturn(FALSE)
                         /\ UNCHANGED << call, payload, retry_count >>
                    ELSE /\ payload' = CleanTags(FilterOut(fetched, tag_name))
                         /\ call' = "update"
                         /\ retry_count' = 0
                         /\ pc' = "mr_enter"
                         /\ UNCHANGED << mut_result, success_count, failed_count, errors,
                                         idx, cur, result, response >>
    /\ UNCHANGED << config, auth_token, remote, req, ids, processed, mr_result, log,
                    authlog, snap, interfered, mutated, attempted, contacted, totals, nwrites >>

\* <kind>.update returned: "return result is not None"
AfterUpdate ==
    /\ pc = "mr_ret"
    /\ call = "update"
    /\ MutReturn(~mr_result.none)
    /\ UNCHANGED << config, auth_token, remote, req, ids, processed, call, retry_count,
                    mr_result, current_tags, payload, log, authlog, snap, interfered,
                    mutated, attempted, contacted, totals, nwrites >>

(***************************************************************************)
(* The environment: another client of the remote rewrites the tag list of  *)
(* the object under mutation after the client fetched it and before the    *)
(* client's update is posted (a write at any other moment is the same as   *)
(* a different remote state before the fetch or after the update).         *)
(***************************************************************************)
ExternalWrite ==
    /\ pc = "mr_enter"
    /\ call = "update"
    /\ retry_count = 0
    /\ nwrites < MaxExternal
    /\ \E id \in {cur} :
         /\ remote[req.kind][id].exists
         /\ \E tags \in {Append(remote[req.kind][id].tags, RemoteTag(NameExt, EmptyStr, "0")),
                         << >>} :
              /\ tags # remote[req.kind][id].tags
              /\ ~TagExists(remote[req.kind][id].tags, NameExt) \/ tags = << >>
              /\ remote' = [remote EXCEPT ![req.kind][id].tags = tags]
         /\ interfered' = (interfered \/ id = cur)
    /\ nwrites' = nwrites + 1
    /\ UNCHANGED << config, auth_token, pc, req, bulkvars, mutvars, log, authlog, snap,
                    mutated, mut_result, attempted, contacted, totals, response >>

Next ==
    \/ AddTagRoute
    \/ RemoveTagRoute
    \/ BulkRoute
    \/ DirectCall
    \/ RouteAuthenticate
    \/ Dispatch
    \/ MutStart
    \/ MRAuthenticate
    \/ MRPost
    \/ AfterFetch
    \/ AfterUpdate
    \/ ExternalWrite

Spec == Init /\ [][Next]_vars

(***************************************************************************)
(* The same machine on a client with username and password only, with the *)
(* history variable totals counting the requests of the mutations.         *)
(***************************************************************************)
MRAuthenticateCounted == MRAuthenticateOf(TRUE)
MRPostCounted == MRPostOf(TRUE)

CountInit == Init /\ api_token = "none" /\ userpass

CountNext ==
    \/ AddTagRoute
    \/ RemoveTagRoute
    \/ BulkRoute
    \/ DirectCall
    \/ RouteAuthenticate
    \/ Dispatch
    \/ MutStart
    \/ MRAuthenticateCounted
    \/ MRPostCounted
    \/ AfterFetch
    \/ AfterUpdate
    \/ ExternalWrite

CountSpec == CountInit /\ [][CountNext]_vars

(***************************************************************************)
(* The machine under the scheduling of the program: a request handler runs *)
(* on one thread, every statement is followed by the next, and every       *)
(* request sent to the remote ends in a response or an exception, so a     *)
(* step of the handler that is possible is eventually taken.  Nothing is   *)
(* assumed of the arrival of requests and of the other writer.             *)
(***************************************************************************)
Handler ==
    \/ RouteAuthenticate
    \/ Dispatch
    \/ MutStart
    \/ MRAuthenticate
    \/ MRPost
    \/ AfterFetch
    \/ AfterUpdate

FairSpec == Spec /\ WF_vars(Handler)

(***************************************************************************)
(* Reading the history.                                                    *)
(***************************************************************************)
IsLogin(e) == e.method = "user.login"
IsUpdate(e) == e.method = UpdateMethod
IsGet(e) == e.method = GetMethod

\* the exchanges of the make_request call that is running or has just returned
CallLog == SelectSeq(log, LAMBDA e : e.call = call)
CallPosts == SelectSeq(CallLog, LAMBDA e : ~IsLogin(e))

\* position in CallLog of the call's first request that is not a login
FirstPostAt == CHOOSE i \in 1..Len(CallLog) :
                  /\ ~IsLogin(CallLog[i])
                  /\ \A j \in 1..(i - 1) : IsLogin(CallLog[j])
\* the logins of the call that follow its first request
ReLogins == {i \in 1..Len(CallLog) : i > FirstPostAt /\ IsLogin(CallLog[i])}

\* the call's first request was answered by an authentication/session error
FirstPostAuthError == CallPosts # << >> /\ MentionsAuth(CallPosts[1].out)

PasswordClient == api_token = "none" /\ userpass

UpdatesSent == {i \in 1..Len(log) : IsUpdate(log[i])}
FetchReturnedObject ==
    \E i \in 1..Len(log) : IsGet(log[i]) /\ log[i].out = "result" /\ snap.exists
UpdateAccepted == \E i \in 1..Len(log) : IsUpdate(log[i]) /\ log[i].out = "result"

Min(a, b) == IF a < b THEN a ELSE b

\* the message with which the route rejects the request before it builds a
\* client, "" when it does not
LocalReject ==
    IF req.direct \/ req.endpoint = "none" THEN ""
    ELSE IF req.endpoint = "add" THEN AddRouteReject(req.inp)
    ELSE IF req.endpoint = "remove" THEN RemoveRouteReject(req.inp)
    ELSE BulkRouteReject(req.kind, req.inp)

\* the route's call of authenticate() has returned
RouteAuthenticated ==
    pc \notin {"idle", "route_auth"} /\ ~req.direct /\ LocalReject = ""

\* every request sent while the inbound request is handled that is still on record
AllSent == authlog \o log

NoCredentials == api_token = "none" /\ ~userpass

\* the ids a bulk request names
RequestedIds == SeqToSet(ParseIds(req.kind, req.inp.ids).ids)

\* the tag list a fetch of the object under mutation would show now
TagsNow == GetResult(remote[req.kind], cur)[1].tags

(***************************************************************************)
(* Claims.                                                                 *)
(***************************************************************************)

\* C1: when a bulk method (detailed variant) returns, success + failed is the
\* number of ids processed, i.e. the length of the list it was given cut to
\* the cap, len(errors) equals failed, and an empty list gives
\* {success: 0, failed: 0, errors: []}.
C1_BulkCounts ==
    result.returned =>
        /\ result.success + result.failed = Min(Len(ids), MAX_BULK_SIZE)
        /\ Len(result.errors) = result.failed
        /\ Len(ids) = 0 => result = BulkResult(0, 0, << >>)

\* a truncated bulk run with a success and a failure has returned
C1_Witness ==
    /\ result.returned
    /\ Len(ids) > MAX_BULK_SIZE
    /\ result.success > 0
    /\ result.failed > 0

\* the empty id list reaches the bulk method (item ids that are all empty tokens)
C1_WitnessEmpty == result.returned /\ Len(ids) = 0 /\ req.inp.ids # << >>

\* C2 (as claimed): for every accepted bulk request of every kind,
\* success + failed = min(number of distinct ids in the request, cap).
C2_DistinctIdsCounted ==
    result.returned =>
        result.success + result.failed = Min(Cardinality(RequestedIds), MAX_BULK_SIZE)

\* C3 (as claimed): no id listed in result.errors was successfully updated on
\* the remote during the bulk run.
C3_ErrorsNotMutated ==
    result.returned =>
        \A i \in 1..Len(result.errors) : result.errors[i] \notin mutated

\* the single-object add of a valid tag to an existing object has returned,
\* its fetch returned the object, the remote accepted the update if one was
\* needed, and no other writer touched the object
C4_Case ==
    /\ pc = "done"
    /\ req.endpoint = "add"
    /\ validate_tag_input(tag_name, tag_value)
    /\ snap.exists
    /\ FetchReturnedObject
    /\ TagExists(snap.tags, tag_name) \/ UpdateAccepted
    /\ ~interfered

\* C4: after such an add, a fetch of the object shows exactly one tag with
\* the name, carrying the given value when the name was not there before.
C4_AddThenFetch ==
    C4_Case =>
        /\ CountName(TagsNow, tag_name) = 1
        /\ ~TagExists(snap.tags, tag_name) =>
              \E i \in 1..Len(TagsNow) :
                  TagsNow[i].tag = tag_name /\ TagsNow[i].value = tag_value

\* a new name with a non-empty value was added next to an existing tag
C4_Witness ==
    /\ C4_Case
    /\ ~TagExists(snap.tags, tag_name)
    /\ snap.tags # << >>
    /\ tag_value = ValProd

\* C5: no object of the remote ever carries two tags of the same name.
C5_NamesUnique ==
    \A k \in Kinds, id \in ObjIds :
        \A i, j \in 1..Len(remote[k][id].tags) :
            remote[k][id].tags[i].tag = remote[k][id].tags[j].tag => i = j

\* a second add of a name to the object this bulk run already added it to
C5_Witness ==
    /\ pc = "done"
    /\ Op = "add"
    /\ cur \in mutated
    /\ ~TagExists(snap.tags, NameExt)
    /\ TagExists(snap.tags, tag_name)
    /\ Len(TagsNow) > 1

\* an add has returned after its fetch showed the name on the object
DuplicateAddCase ==
    /\ pc = "done"
    /\ Op = "add"
    /\ FetchReturnedObject
    /\ TagExists(current_tags, tag_name)

\* C6 (as claimed): adding a name the fetched object already carries returns
\* success without an update call; the route answers success and a bulk add
\* counts the id in success.
C6_DuplicateAddSucceeds ==
    DuplicateAddCase =>
        /\ UpdatesSent = {}
        /\ mut_result
        /\ req.endpoint = "add" => response.success
        /\ req.endpoint = "bulk" => cur \notin SeqToSet(result.errors)

\* a remove has returned after its fetch showed the object without the name
AbsentRemoveCase ==
    /\ pc = "done"
    /\ Op = "remove"
    /\ FetchReturnedObject
    /\ ~TagExists(current_tags, tag_name)

\* C7: removing a name the object does not carry sends the fetch and no
\* update, and leaves the object's tag list as it was.
C7_AbsentRemoveNoUpdate ==
    AbsentRemoveCase =>
        /\ UpdatesSent = {}
        /\ \A i \in 1..Len(log) : IsGet(log[i]) \/ IsLogin(log[i])
        /\ ~interfered => remote[req.kind][cur] = snap

\* the object carries other tags and the name is not among them
C7_Witness == AbsentRemoveCase /\ snap.tags # << >>

\* C8 (as claimed): removing a name the object does not carry reports
\* success: the mutation returns success, the route answers success: true,
\* and a bulk remove counts the id in success.
C8_AbsentRemoveSucceeds ==
    AbsentRemoveCase =>
        /\ mut_result
        /\ req.endpoint = "remove" => response.success
        /\ req.endpoint = "bulk" => cur \notin SeqToSet(result.errors)

\* a make_request call of a password-authenticated client has returned and
\* its first request was answered by an authentication/session error
C9_Case == pc = "mr_ret" /\ PasswordClient /\ FirstPostAuthError

\* C9 (as claimed): then exactly one re-login was attempted and the request
\* was sent exactly twice; a failure of the second attempt is a failure of
\* the call.
C9_OneReloginOneResend ==
    C9_Case =>
        /\ Cardinality(ReLogins) = 1
        /\ Len(CallPosts) = 2
        /\ CallPosts[Len(CallPosts)].out # "result" => mr_result.none

\* C9 (amended): exactly one re-login was attempted; the request was re-sent
\* exactly once if that re-login succeeded and not at all if it failed, in
\* which case the call fails with the token left unset; a failure of the
\* second attempt is a failure of the call, and nothing is sent a third time.
C9_OneReloginThenResend ==
    C9_Case =>
        LET relogin == CallLog[CHOOSE i \in ReLogins : TRUE] IN
        /\ Cardinality(ReLogins) = 1
        /\ Len(CallPosts) = IF relogin.out = "result" THEN 2 ELSE 1
        /\ relogin.out # "result" => mr_result.none /\ auth_token = "none"
        /\ relogin.out = "result" => auth_token = "sess"
        /\ CallPosts[Len(CallPosts)].out # "result" => mr_result.none

\* the re-sent request failed as well
C9_Witness ==
    /\ C9_Case
    /\ Len(CallPosts) = 2
    /\ MentionsAuth(CallPosts[2].out)
    /\ mr_result.none

\* C10: with a static API token no login request is ever sent, and a
\* make_request call whose request is answered by an authentication/session
\* error has sent it once, fails, and leaves the stored token equal to the
\* API token.
C10_StaticTokenNoRetry ==
    api_token # "none" =>
        /\ authlog = << >>
        /\ \A i \in 1..Len(log) : ~IsLogin(log[i])
        /\ pc = "mr_ret" /\ FirstPostAuthError =>
              /\ Len(CallPosts) = 1
              /\ mr_result.none
              /\ auth_token = api_token

\* a static-token client got an authentication/session error
C10_Witness == pc = "mr_ret" /\ api_token # "none" /\ FirstPostAuthError

\* C11: every request for a method other than user.login carries the stored
\* token, which is set, as bearer credential in the Authorization header; no
\* request carries the token in its body; the login request carries no
\* Authorization header.
C11_BearerInHeaderOnly ==
    \A i \in 1..Len(AllSent) :
        /\ ~AllSent[i].in_body
        /\ IsLogin(AllSent[i]) => AllSent[i].bearer = "none"
        /\ ~IsLogin(AllSent[i]) =>
              /\ AllSent[i].stored # "none"
              /\ AllSent[i].bearer = AllSent[i].stored

\* a request was sent, answered by a session error, and sent again with the
\* token of the re-login
C11_Witness ==
    /\ pc = "mr_ret"
    /\ PasswordClient
    /\ Len(CallPosts) = 2
    /\ Cardinality(ReLogins) = 1
    /\ CallPosts[2].bearer = "sess"

\* C12: with a static API token configured, authenticate() succeeds, leaves
\* the API token as the stored token and sends no request, whether or not a
\* username and password are configured as well.
C12_StaticTokenAuthenticates ==
    api_token # "none" =>
        /\ \A i \in 1..Len(AllSent) : ~IsLogin(AllSent[i])
        /\ RouteAuthenticated =>
              /\ auth_token = api_token
              /\ response.message # "Authorization error"
        /\ req.direct /\ call # "none" /\ pc \in {"mr_post", "mr_ret", "done"} =>
              auth_token = api_token

\* the route's authenticate() succeeded with both credential sources configured
C12_Witness ==
    /\ api_token # "none"
    /\ userpass
    /\ pc = "dispatch"
    /\ auth_token = api_token

\* C13: with no API token and no username/password, authenticate() fails
\* without sending a request and leaves the stored token unset: the routes
\* answer 'Authorization error', and a make_request for a non-login method
\* returns failure without sending a request.
C13_FailsClosed ==
    NoCredentials =>
        /\ auth_token = "none"
        /\ AllSent = << >>
        /\ contacted = << >>
        /\ remote = [k \in Kinds |-> InitObjects]
        /\ pc = "mr_ret" => mr_result.none
        /\ RouteAuthenticated => pc = "done" /\ response = Reply(FALSE, "Authorization error")

\* make_request returned on a client without credentials
C13_Witness == NoCredentials /\ pc = "mr_ret" /\ call = "fetch"

\* the ids of the list handed to the bulk method that occur beyond the cap only
ExcessIds ==
    {ids[i] : i \in (MAX_BULK_SIZE + 1)..Len(ids)}
        \ {ids[i] : i \in 1..Min(Len(ids), MAX_BULK_SIZE)}

\* C14: a bulk method given more ids than the cap processes exactly the
\* first cap ids, in their order; no request is sent for an id beyond the cap,
\* such an id is neither updated nor listed in errors, success + failed is the
\* cap, and the route answers success: true with the counts.
C14_TruncatedToCap ==
    result.returned /\ Len(ids) > MAX_BULK_SIZE =>
        /\ processed = SubSeq(ids, 1, MAX_BULK_SIZE)
        /\ attempted = processed
        /\ \A i \in 1..Len(contacted) :
              /\ contacted[i].pos \in 1..MAX_BULK_SIZE
              /\ contacted[i].id = ids[contacted[i].pos]
        /\ \A id \in ExcessIds :
              /\ id \notin mutated
              /\ id \notin SeqToSet(result.errors)
              /\ id \in ObjIds => remote[req.kind][id] = InitObjects[id]
        /\ result.success + result.failed = MAX_BULK_SIZE
        /\ response.success
        /\ response.details.present
        /\ response.details.success_count + response.details.failed_count = MAX_BULK_SIZE

\* a bulk run over a list with an id beyond the cap that is not among the first
C14_Witness ==
    /\ result.returned
    /\ Len(ids) > MAX_BULK_SIZE
    /\ ExcessIds # {}
    /\ result.success > 0

\* C15: a bulk run attempts the processed ids one by one in list order, each
\* position once; the requests for one position are all sent before the first
\* request for the next; and whatever the mutation of an id returns, the run
\* goes on until every processed id was attempted.
C15_SequentialNoAbort ==
    req.endpoint = "bulk" =>
        /\ Len(attempted) <= Len(processed)
        /\ attempted = SubSeq(processed, 1, Len(attempted))
        /\ \A i \in 1..Len(contacted) :
              /\ contacted[i].pos \in 1..Len(attempted)
              /\ contacted[i].id = processed[contacted[i].pos]
              /\ \A j \in 1..Len(contacted) :
                    i < j => contacted[i].pos < contacted[j].pos
        /\ result.returned => attempted = processed

\* the first id of the run failed after a request was sent for it, and a later
\* id was updated
C15_Witness ==
    /\ result.returned
    /\ Len(processed) >= 2
    /\ result.errors # << >>
    /\ result.errors[1] = processed[1]
    /\ Len(contacted) = Len(processed)
    /\ processed[Len(processed)] \in mutated
    /\ processed[1] \notin mutated

\* an inbound request at a route has been received
AtRoute == req.endpoint # "none" /\ ~req.direct

\* the route has answered success: false
Refused == response.sent /\ ~response.success

\* the request lacks the JSON body its route reads, or its tag is absent, not
\* a string, empty or blank, or its tag or value is longer than the limit
InvalidTagRequest ==
    \/ req.endpoint \in {"add", "bulk"} /\ ~req.inp.has_json
    \/ TagNameMissing(tag_name)
    \/ tag_name.len > MaxTagLen
    \/ tag_value.len > MaxTagLen

\* C16 (as claimed): a single-object or bulk request with such a defect is
\* answered success: false and no request at all is sent to the remote.
C16_InvalidRejectedLocally ==
    AtRoute /\ InvalidTagRequest =>
        /\ pc = "done" => Refused
        /\ AllSent = << >>
        /\ contacted = << >>

\* the id list of a bulk request is missing, not a list, empty, or holds a
\* token that is not an integer literal
BadIdList ==
    \/ ~req.inp.ids_is_list
    \/ req.inp.ids = << >>
    \/ \E i \in 1..Len(Flatten(req.inp.ids)) : Flatten(req.inp.ids)[i].t # "int"

\* C17 (as claimed): a bulk request with such an id list is answered
\* success: false, no request is sent to the remote and no object is updated.
C17_BadIdsRejected ==
    AtRoute /\ req.endpoint = "bulk" /\ BadIdList =>
        /\ pc = "done" => Refused
        /\ AllSent = << >>
        /\ mutated = {}

\* C18 (as claimed): with a static token or a username/password configured,
\* a bulk request that passes the local checks and whose operation is neither
\* "add" nor "remove" causes no request to the remote, not even a login, and
\* is answered 'Unknown operation'.
C18_UnknownOperationNoRemote ==
    /\ AtRoute /\ req.endpoint = "bulk" /\ LocalReject = ""
    /\ Op \notin {"add", "remove"}
    /\ ~NoCredentials
    =>  /\ AllSent = << >>
        /\ pc = "done" => response = Reply(FALSE, "Unknown operation")

\* the integers named by the comma-separated tokens of all elements
GroupedIds == SeqToSet(TokInts(Flatten(req.inp.ids)))

\* C19 (as claimed): a bulk request of any kind whose id list is a non-empty
\* list of integer tokens, possibly comma-joined, and whose tag is valid is
\* accepted, and the list handed to the bulk method holds each of the named
\* integers once.
C19_GroupsParsedToSet ==
    /\ AtRoute /\ req.endpoint = "bulk" /\ req.inp.has_json
    /\ ~TagNameMissing(tag_name) /\ ~TooLong(tag_name, tag_value)
    /\ ~BadIdList
    => /\ LocalReject = ""
       /\ SeqToSet(ids) = GroupedIds
       /\ Len(ids) = Cardinality(GroupedIds)

\* the last remote call of the request ended with its request answered by an
\* authentication/session error and the route has answered
CredentialRejected ==
    /\ AtRoute
    /\ pc = "done"
    /\ log # << >>
    /\ ~IsLogin(log[Len(log)])
    /\ MentionsAuth(log[Len(log)].out)

\* C20 (as claimed): then the route's answer is success: false with the
\* message 'Authorization error'.
C20_AuthErrorSurfaced ==
    CredentialRejected => response = Reply(FALSE, "Authorization error")

\* the route's authenticate() succeeded
RouteLoginOk ==
    api_token # "none" \/ (authlog # << >> /\ authlog[Len(authlog)].out = "result")

\* a bulk add or remove passed the local checks and authenticate(), and the
\* route has answered
BulkAnswered ==
    /\ pc = "done"
    /\ AtRoute
    /\ req.endpoint = "bulk"
    /\ Op \in {"add", "remove"}
    /\ LocalReject = ""
    /\ RouteLoginOk

\* C21: the answer to such a request is success: true with details that
\* repeat the bulk method's result, whatever the per-id outcomes, so that
\* success_count + failed_count is the number of processed ids.
C21_BulkNeverFailsAtomically ==
    BulkAnswered =>
        /\ result.returned
        /\ response.sent
        /\ response.success
        /\ response.details.present
        /\ response.details.success_count = result.success
        /\ response.details.failed_count = result.failed
        /\ response.details.failed_items = result.errors
        /\ response.details.success_count + response.details.failed_count = Len(processed)

\* every id of a bulk run over several ids failed
C21_Witness ==
    /\ BulkAnswered
    /\ Len(processed) >= 2
    /\ result.success = 0
    /\ result.failed = Len(processed)

\* C22: make_request sends a request a second time only after an error
\* response that mentions authentication or session; after any other error
\* response and after a transport failure the request was sent once, no
\* login followed, the call returns failure and the stored token is the one
\* the request was sent with.
C22_NoRetryOnOtherFailures ==
    pc = "mr_ret" /\ CallPosts # << >> =>
        /\ Len(CallPosts) >= 2 => MentionsAuth(CallPosts[1].out)
        /\ CallPosts[1].out \in {RefusedText, "transport"} =>
              /\ Len(CallPosts) = 1
              /\ ReLogins = {}
              /\ mr_result.none
              /\ auth_token = CallPosts[1].stored
              /\ auth_token # "none"

\* the remote refused the update of a password client
C22_Witness ==
    /\ pc = "mr_ret"
    /\ call = "update"
    /\ PasswordClient
    /\ CallPosts # << >>
    /\ CallPosts[1].out = RefusedText

\* a transport failure of the fetch
C22_WitnessTransport ==
    pc = "mr_ret" /\ call = "fetch" /\ CallPosts # << >> /\ CallPosts[1].out = "transport"

\* a single-object mutation has been entered and has returned
MutationReturned ==
    /\ attempted # << >>
    /\ pc = "done" \/ pc = "mut_start"

\* the tags of the object as fetched, each as the pair of its name and value,
\* followed by the tag of the request
ExpectedAddPayload ==
    [i \in 1..(Len(snap.tags) + 1) |->
        IF i <= Len(snap.tags)
        THEN [tag |-> snap.tags[i].tag, value |-> snap.tags[i].value]
        ELSE [tag |-> tag_name, value |-> tag_value]]

\* C23: the update of an add carries the fetched tags in their order followed
\* by the new tag; every entry of every update list has the fields tag and
\* value and no other; an add or remove for which an update was sent returns
\* success exactly if the update call returned a result.
C23_AddPayloadAndResult ==
    /\ Op = "add" /\ UpdatesSent # {} => payload = ExpectedAddPayload
    /\ \A i \in 1..Len(payload) : DOMAIN payload[i] = {"tag", "value"}
    /\ MutationReturned => (mut_result <=> UpdateAccepted)

\* an accepted add to an object that carries a tag with automatic = 1
C23_Witness ==
    /\ pc = "done"
    /\ Op = "add"
    /\ mut_result
    /\ Len(snap.tags) = 2
    /\ snap.tags[1].automatic = "1"
    /\ Len(payload) = 3
    /\ tag_value = ValProd

\* a tag list as the pairs of name and value
PairsOf(tags) ==
    [i \in 1..Len(tags) |-> [tag |-> tags[i].tag, value |-> tags[i].value]]

\* the tags of the object, as fetched, that do not carry the name
ExpectedRemovePayload ==
    PairsOf(SelectSeq(snap.tags, LAMBDA t : t.tag # tag_name))

\* C24: the update of a remove is sent only when the fetched list carries the
\* name, and carries the fetched list without the entries of that name, the
\* other tags in their order with their values; once the update is accepted
\* and no other writer interfered, a fetch shows no tag of the name and the
\* other tags with the names and values they had.
C24_RemovePayloadAndFrame ==
    Op = "remove" /\ UpdatesSent # {} =>
        /\ TagExists(snap.tags, tag_name)
        /\ payload = ExpectedRemovePayload
        /\ pc = "done" /\ UpdateAccepted /\ ~interfered =>
              /\ CountName(TagsNow, tag_name) = 0
              /\ PairsOf(TagsNow) = ExpectedRemovePayload

\* the first of two tags was removed and the second is still there
C24_Witness ==
    /\ pc = "done"
    /\ Op = "remove"
    /\ mut_result
    /\ ~interfered
    /\ Len(snap.tags) = 2
    /\ snap.tags[1].tag = tag_name
    /\ Len(TagsNow) = 1
    /\ TagsNow[1].tag = NameDc

\* C25: an update is only sent after a fetch of the same mutation that
\* returned the object; a mutation whose fetch returned nothing, because the
\* object does not exist or because the fetch failed, returns failure and sends
\* no update.
C25_UpdateOnlyAfterFetch ==
    /\ \A i \in UpdatesSent :
          /\ snap.exists
          /\ \E j \in 1..(i - 1) : IsGet(log[j]) /\ log[j].out = "result"
    /\ MutationReturned /\ ~FetchReturnedObject => ~mut_result /\ UpdatesSent = {}

\* the fetch of an object that does not exist was answered with an empty list
C25_Witness ==
    /\ pc = "done"
    /\ ~snap.exists
    /\ log # << >>
    /\ IsGet(log[Len(log)])
    /\ log[Len(log)].out = "result"
    /\ ~mut_result

\* the tag of the request fails the checks of the mutation it asks for
TagArgsBad ==
    \/ tag_name.typ # "str"
    \/ tag_name.len = 0
    \/ tag_name.blank
    \/ Op = "add" /\ (tag_name.len > MaxTagLen \/ tag_value.len > MaxTagLen)

\* the positions of the bulk run for which a request was sent
ContactedPositions == {contacted[i].pos : i \in 1..Len(contacted)}

\* C26: a mutation whose id is not positive or whose tag fails validation
\* returns failure and sends nothing; a bulk run counts such an id as failed,
\* lists it in errors and goes on with the next id.
C26_InvalidArgsNoRequest ==
    /\ pc = "done" /\ attempted # << >> /\ (cur <= 0 \/ TagArgsBad) =>
          /\ log = << >>
          /\ idx \notin ContactedPositions
          /\ ~mut_result
    /\ result.returned =>
          /\ attempted = processed
          /\ \A p \in 1..Len(processed) :
                processed[p] <= 0 =>
                    /\ p \notin ContactedPositions
                    /\ processed[p] \in SeqToSet(result.errors)
          /\ result.failed >= Cardinality({p \in 1..Len(processed) : processed[p] <= 0})

\* a bulk run whose first id is 0 went on and updated the next object
C26_Witness ==
    /\ result.returned
    /\ Len(processed) >= 2
    /\ processed[1] = 0
    /\ processed[2] \in mutated
    /\ result.errors = << 0 >>

\* a mutation method called with a tag that fails validation has returned
C26_WitnessTag == pc = "done" /\ req.direct /\ TagArgsBad /\ cur > 0

\* another client wrote the tags of the object between the fetch and the
\* update of the mutation that has just ended the request
Interleaved == pc = "done" /\ interfered

\* C27: after such a write the update is sent all the same, with the list
\* computed from the fetch; when the remote accepts it the mutation reports
\* success, and the object then carries exactly the tags of the update, so the
\* other client's change is gone.
C27_LostUpdate ==
    Interleaved =>
        /\ UpdatesSent # {}
        /\ payload = IF Op = "add" THEN ExpectedAddPayload ELSE ExpectedRemovePayload
        /\ mut_result <=> UpdateAccepted
        /\ UpdateAccepted =>
              /\ PairsOf(TagsNow) = payload
              /\ AtRoute /\ req.endpoint # "bulk" => response.success

\* the tag another client appended to an object without tags is lost, and the
\* route answers success
C27_Witness ==
    /\ Interleaved
    /\ AtRoute
    /\ req.endpoint = "add"
    /\ snap.tags = << >>
    /\ response.success
    /\ ~TagExists(TagsNow, NameExt)

\* a bulk method has been entered with a non-empty list
BulkRunning ==
    /\ req.endpoint = "bulk"
    /\ pc \in {"mut_start", "mr_enter", "mr_post", "mr_ret"}

\* C28: every bulk run ends with the bulk method returning a result, whatever
\* the remote answers, after at most cap single-object mutations, each
\* position of the list being attempted once.
C28_BulkTerminates ==
    /\ [](Len(attempted) <= (IF req.endpoint = "bulk" THEN MAX_BULK_SIZE ELSE 1))
    /\ BulkRunning ~> (pc = "done" /\ result.returned)

\* a bulk run over as many ids as the cap allows in which every request
\* failed has returned
C28_Witness ==
    /\ result.returned
    /\ Len(attempted) = MAX_BULK_SIZE
    /\ Len(contacted) = MAX_BULK_SIZE
    /\ result.failed = MAX_BULK_SIZE
    /\ mutated = {}

\* the requests of the current mutation, by what they are
LoginsSent == {i \in 1..Len(log) : IsLogin(log[i])}
GetsSent == {i \in 1..Len(log) : IsGet(log[i])}

\* the mutation began with no stored token: its first request is the login
\* of "not self.auth_token and not self.authenticate()"
BeganWithoutToken == log # << >> /\ IsLogin(log[1])

\* C29 (as claimed): one mutation sends at most 2 fetch, 2 update and 2 login
\* requests, and the mutations of a bulk run over n ids at most 4n requests
\* that are not logins and 2n logins.
C29_TwoLoginsPerMutation ==
    PasswordClient =>
        /\ Cardinality(GetsSent) <= 2
        /\ Cardinality(UpdatesSent) <= 2
        /\ Cardinality(LoginsSent) <= 2
        /\ totals.posts <= 4 * Len(attempted)
        /\ totals.logins <= 2 * Len(attempted)

\* C29 (amended): one mutation sends at most 2 fetch and 2 update requests and
\* at most 2 logins per remote call; it sends at most 2 logins when it began
\* with a stored token and at most 3 when it began without one; the mutations
\* of a run over n ids send at most 4n requests that are not logins and 3n
\* logins.
C29_RetryBudgetPerCall ==
    PasswordClient =>
        /\ Cardinality(GetsSent) <= 2
        /\ Cardinality(UpdatesSent) <= 2
        /\ \A c \in {"fetch", "update"} :
              Cardinality({i \in LoginsSent : log[i].call = c}) <= 2
        /\ Cardinality(LoginsSent) <= (IF BeganWithoutToken THEN 3 ELSE 2)
        /\ totals.posts <= 4 * Len(attempted)
        /\ totals.logins <= 3 * Len(attempted)

\* the second mutation of a bulk run began without a token, because the
\* re-login of the first one failed, and sent three logins, two fetches and
\* two updates
C29_Witness ==
    /\ PasswordClient
    /\ AtRoute
    /\ req.endpoint = "bulk"
    /\ Len(attempted) = 2
    /\ BeganWithoutToken
    /\ Cardinality(LoginsSent) = 3
    /\ Cardinality(GetsSent) = 2
    /\ Cardinality(UpdatesSent) = 2
    /\ totals.logins > 2 * Len(attempted)

\* the last exchange of the mutation is a re-login that failed: a login the
\* remote did not answer with a result, sent after a request of the same call
ReloginFailed ==
    /\ Len(log) >= 2
    /\ IsLogin(log[Len(log)])
    /\ log[Len(log)].out # "result"
    /\ ~IsLogin(log[Len(log) - 1])
    /\ log[Len(log) - 1].call = log[Len(log)].call

\* the requests of the call whose re-login is the last exchange
PostsBeforeRelogin ==
    {i \in 1..Len(log) : ~IsLogin(log[i]) /\ log[i].call = log[Len(log)].call}

\* C30: when the re-login after an authentication/session error fails, the
\* request was sent once, make_request returns None, the mutation fails and
\* no token is stored; no request other than a login is ever sent while no
\* token is stored, so the client's next make_request begins with a login.
C30_FailedReloginNoResend ==
    PasswordClient =>
        /\ ReloginFailed =>
              /\ pc \in {"mr_ret", "mut_start", "done"}
              /\ Cardinality(PostsBeforeRelogin) = 1
              /\ MentionsAuth(log[Len(log) - 1].out)
              /\ auth_token = "none"
              /\ pc = "mr_ret" => mr_result.none
              /\ pc # "mr_ret" => ~mut_result
        /\ \A i \in 1..Len(log) :
              ~IsLogin(log[i]) => log[i].stored # "none" /\ log[i].bearer = log[i].stored
        /\ pc = "mr_post" => auth_token # "none"

\* in a bulk run reached through a successful route login the first mutation
\* failed, the second one began with a login and then sent its fetch with the
\* new token: the re-login of the first mutation had failed
C30_Witness ==
    /\ PasswordClient
    /\ AtRoute
    /\ req.endpoint = "bulk"
    /\ RouteLoginOk
    /\ idx = 2
    /\ failed_count = 1
    /\ BeganWithoutToken
    /\ Len(log) >= 2
    /\ ~IsLogin(log[2])
    /\ log[2].stored = "sess"

\* the re-login of an update failed, by a transport failure: the update was
\* sent once and the route answers failure
C30_WitnessUpdate ==
    /\ PasswordClient
    /\ AtRoute
    /\ pc = "done"
    /\ ReloginFailed
    /\ log[Len(log)].call = "update"
    /\ log[Len(log)].out = "transport"
    /\ response.sent /\ ~response.success

====
